---------------------------- MODULE Spec2Model ----------------------------
(***************************************************************************)
(* Model of three primitives of the gRPC core:                             *)
(*   - MultiProducerSingleConsumerQueue   (src/core/util/mpscq.h)          *)
(*   - ConnectivityStateTracker and the asynchronous watcher notifier      *)
(*                         (src/core/lib/transport/connectivity_state.cc)  *)
(*   - TDigest                             (src/core/util/tdigest.cc)      *)
(* Each component has its own specification (SpecQ, SpecT, SpecD); the     *)
(* variables of the other components stay at their initial values.         *)
(***************************************************************************)
EXTENDS Integers, Sequences, FiniteSets, TLC

(***************************************************************************)
(* Bounds of the model.                                                    *)
(***************************************************************************)
NumProducers == 2
NodesPerProducer == 2
\* Push calls made in all, over all the producers.
MaxPushes == 3
\* Watcher objects created, and calls made on the tracker.
NumWatchers == 3
MaxOps == 3
\* Calls made on the tracker when the deliveries are interleaved with them.
MaxAsyncOps == 2
\* Calls made on the digest, and samples in a digest handed to Merge.
MaxDigestOps == 4
MaxThatAdds == 1

(***************************************************************************)
(*                 MultiProducerSingleConsumerQueue                        *)
(***************************************************************************)
VARIABLES
  head_,      \* std::atomic<Node*> head_
  tail_,      \* Node* tail_ (owned by the consumer)
  next,       \* Node::next of every node and of stub_
  ppc,        \* per producer: position inside Push
  pidx,       \* per producer: number of Push calls started
  pprev,      \* per producer: local prev of Push
  pret,       \* per producer: the value its last Push call returned
  pquiet,     \* history: QuietFor(p) at the head exchange of the Push call
              \* p is inside or has just returned from
  cpc,        \* consumer: position inside PopAndCheckEnd
  cop,        \* consumer: the entry point called ("Pop" or "PopAndCheckEnd")
  ctail,      \* consumer: local tail
  cnext,      \* consumer: local next
  cprev,      \* consumer: local prev of the inlined Push(&stub_)
  empty,      \* consumer: *empty as last written
  popped,     \* history: nodes returned to the consumer, in order
  nones,      \* history: some call returned nullptr
  cnull,      \* history: the consumer's call has just returned nullptr
  cvacant,    \* history: at some moment of that call no pushed node was
              \* waiting to be returned
  cmid        \* history: at some moment of that call a producer had
              \* exchanged head_ and not yet stored the link

qvars == <<head_, tail_, next, ppc, pidx, pprev, pret, pquiet,
           cpc, cop, ctail, cnext, cprev, empty, popped, nones,
           cnull, cvacant, cmid>>

\* The variables of LockedMultiProducerSingleConsumerQueue.
VARIABLES
  mu_,        \* Mutex mu_ of the locked queue: the thread holding it, 0
              \* when it is free; -1 when the queue is the plain one
  lpc,        \* per popping thread: position inside TryPop or Pop
  lnode,      \* local node of the call that holds mu_
  lseen       \* history: the nodes whose Push had returned and that no
              \* call had returned when thread 1 called Pop

lvars == <<mu_, lpc, lnode, lseen>>

\* The sentinel node and the null pointer.
stub_ == 0
nullptr == -1

Producers == 1..NumProducers
NumNodes == NumProducers * NodesPerProducer
Nodes == 1..NumNodes
\* The k-th node (k = 1..NodesPerProducer) that producer p pushes.
NodeOf(p, k) == (p - 1) * NodesPerProducer + k
OwnerOf(n) == ((n - 1) \div NodesPerProducer) + 1

\* Push calls started so far.
RECURSIVE SumUpTo(_, _)
SumUpTo(f, n) == IF n = 0 THEN 0 ELSE f[n] + SumUpTo(f, n - 1)
PushesStarted == SumUpTo(pidx, NumProducers)

\* Producer p's k-th Push has exchanged head_.
Exchanged(n) ==
  LET p == OwnerOf(n)
      k == n - (p - 1) * NodesPerProducer
  IN  pidx[p] > k \/ (pidx[p] = k /\ ppc[p] # "xchg")

\* The nodes whose Push has exchanged head_ and that no call has returned yet.
Unreturned ==
  {n \in Nodes : Exchanged(n) /\ \A i \in 1..Len(popped) : popped[i] # n}

\* At the head exchange of producer p: every node pushed before was returned
\* and no other producer is inside Push.
QuietFor(p) ==
  /\ Unreturned = {}
  /\ \A q \in Producers \ {p} : ppc[q] = "idle"

\* MultiProducerSingleConsumerQueue(): head_{&stub_}, tail_(&stub_);
\* Node::next{nullptr}.
QInit ==
  /\ head_ = stub_
  /\ tail_ = stub_
  /\ next = [n \in Nodes \cup {stub_} |-> nullptr]
  /\ ppc = [p \in Producers |-> "idle"]
  /\ pidx = [p \in Producers |-> 0]
  /\ pprev = [p \in Producers |-> nullptr]
  /\ pret = [p \in Producers |-> FALSE]
  /\ pquiet = [p \in Producers |-> FALSE]
  /\ cpc = "idle"
  /\ cop = "none"
  /\ ctail = nullptr
  /\ cnext = nullptr
  /\ cprev = nullptr
  /\ empty = FALSE
  /\ popped = <<>>
  /\ nones = FALSE
  /\ cnull = FALSE
  /\ cvacant = FALSE
  /\ cmid = FALSE

\* Some producer has exchanged head_ and not yet stored the link.
MidPush == \E p \in Producers : ppc[p] = "link"

\* The histories, brought up to date by every step of the queue.
\* pquiet[p] is taken at p's head exchange and kept until the state its
\* Push returns in.  cvacant and cmid gather, over every state from the loads
\* that open the consumer's call to the step that returns, whether the queue
\* held no unreturned node and whether a producer was mid-push; cnull tells
\* that the step returned nullptr.  All of them describe the call that has
\* just returned and are cleared by the step that follows.  They are kept
\* for the plain queue and its one consumer, not for the locked queue.
Watched ==
  LET inCall == cpc # "idle"
      returnsNone == inCall /\ cpc' = "idle" /\ popped' = popped
      returnsNode == inCall /\ cpc' = "idle" /\ popped' # popped
  IN  IF mu_ # -1 THEN UNCHANGED <<pquiet, cnull, cvacant, cmid>>
      ELSE
      /\ pquiet' = [p \in Producers |->
                      IF ppc[p] = "xchg" /\ ppc'[p] = "link" THEN QuietFor(p)
                      ELSE IF ppc[p] = "link" THEN pquiet[p]
                      ELSE FALSE]
      /\ cnull' = returnsNone
      /\ cvacant' = IF returnsNode THEN FALSE
                    ELSE IF inCall THEN cvacant \/ Unreturned = {}
                    ELSE IF cpc' # "idle" THEN Unreturned = {}
                    ELSE FALSE
      /\ cmid' = IF returnsNode THEN FALSE
                 ELSE IF inCall THEN cmid \/ MidPush
                 ELSE IF cpc' # "idle" THEN MidPush
                 ELSE FALSE

----------------------------------------------------------------------------
(* Push(node), one atomic access per step.                                 *)

\* node->next.store(nullptr): the link of a node about to be pushed.
ClearedNextMut(old) == old
ClearedNext(old) == nullptr

\* The value head_.exchange(node) stores into head_.
ExchangedHead(node, old) == node

\* prev->next.store(node): the links after the store.
LinkedNextMut(nextf, prev, node) == nextf
LinkedNext(nextf, prev, node) == [nextf EXCEPT ![prev] = node]

\* The node a successful pop hands out: tail, after tail_ moved on to next.
PoppedNodeMut(tail, nxt) == nxt
PoppedNode(tail, nxt) == tail

\* The value Push returns: prev == &stub_.
WasEmptyMut(prev) == prev = nullptr
WasEmpty(prev) == prev = stub_

\* node->next.store(nullptr, relaxed)
PushClearNext(p) ==
  /\ ppc[p] = "idle"
  /\ pidx[p] < NodesPerProducer
  /\ PushesStarted < MaxPushes
  /\ pidx' = [pidx EXCEPT ![p] = @ + 1]
  /\ next' = [next EXCEPT ![NodeOf(p, pidx[p] + 1)] = ClearedNext(@)]
  /\ ppc' = [ppc EXCEPT ![p] = "xchg"]
  /\ UNCHANGED <<head_, tail_, pprev, pret, cpc, cop, ctail, cnext, cprev,
                 empty, popped, nones>>
  /\ Watched

\* Node* prev = head_.exchange(node, acq_rel)
PushExchange(p) ==
  /\ ppc[p] = "xchg"
  /\ pprev' = [pprev EXCEPT ![p] = head_]
  /\ head_' = ExchangedHead(NodeOf(p, pidx[p]), head_)
  /\ ppc' = [ppc EXCEPT ![p] = "link"]
  /\ UNCHANGED <<tail_, next, pidx, pret, cpc, cop, ctail, cnext, cprev,
                 empty, popped, nones>>
  /\ Watched

\* prev->next.store(node, release); return prev == &stub_
PushLink(p) ==
  /\ ppc[p] = "link"
  /\ next' = LinkedNext(next, pprev[p], NodeOf(p, pidx[p]))
  /\ pret' = [pret EXCEPT ![p] = WasEmpty(pprev[p])]
  /\ ppc' = [ppc EXCEPT ![p] = "idle"]
  /\ pprev' = [pprev EXCEPT ![p] = nullptr]
  /\ UNCHANGED <<head_, tail_, pidx, cpc, cop, ctail, cnext, cprev,
                 empty, popped, nones>>
  /\ Watched

----------------------------------------------------------------------------
(* Pop() / PopAndCheckEnd(&empty), one atomic access per step.  Pop is     *)
(* PopAndCheckEnd with a local empty flag.                                 *)

\* The call returns node n; its locals go out of scope.
ReturnNode(n) ==
  /\ popped' = Append(popped, n)
  /\ cpc' = "idle"
  /\ ctail' = nullptr
  /\ cnext' = nullptr
  /\ cprev' = nullptr
  /\ UNCHANGED nones

\* The call returns nullptr; its locals go out of scope.
ReturnNull ==
  /\ cpc' = "idle"
  /\ ctail' = nullptr
  /\ cnext' = nullptr
  /\ cprev' = nullptr
  /\ nones' = TRUE
  /\ UNCHANGED popped

\* Node* tail = tail_; Node* next = tail_->next.load(acquire)
PopBegin(op) ==
  /\ cpc = "idle"
  /\ Len(popped) <= MaxPushes
  /\ cop' = op
  /\ ctail' = tail_
  /\ cnext' = next[tail_]
  /\ cpc' = "loaded"
  /\ UNCHANGED <<head_, tail_, next, ppc, pidx, pprev, pret, cprev, empty,
                 popped, nones>>
  /\ Watched

Pop == PopBegin("Pop")
PopAndCheckEnd == PopBegin("PopAndCheckEnd")

\* if (tail == &stub_) { if (next == nullptr) { *empty = true; return nullptr; }
\*                       tail_ = next; tail = next; ...
\* and, when tail != &stub_, the test if (next != nullptr) that follows.
PopCheckStub ==
  /\ cpc = "loaded"
  /\ IF ctail = stub_
       THEN IF cnext = nullptr
              THEN /\ empty' = TRUE
                   /\ ReturnNull
                   /\ UNCHANGED tail_
              ELSE /\ tail_' = cnext
                   /\ ctail' = cnext
                   /\ cpc' = "reload"
                   /\ UNCHANGED <<cnext, cprev, empty, popped, nones>>
       ELSE IF cnext # nullptr
              THEN /\ empty' = FALSE
                   /\ tail_' = cnext
                   /\ ReturnNode(PoppedNode(ctail, cnext))
              ELSE /\ cpc' = "loadhead"
                   /\ UNCHANGED <<tail_, ctail, cnext, cprev, empty, popped,
                                  nones>>
  /\ UNCHANGED <<head_, next, ppc, pidx, pprev, pret, cop>>
  /\ Watched

\* next = tail->next.load(acquire) after skipping the stub, then
\* if (next != nullptr) { *empty = false; tail_ = next; return tail; }
PopReload ==
  /\ cpc = "reload"
  /\ IF next[ctail] # nullptr
       THEN /\ empty' = FALSE
            /\ tail_' = next[ctail]
            /\ ReturnNode(PoppedNode(ctail, next[ctail]))
       ELSE /\ cnext' = next[ctail]
            /\ cpc' = "loadhead"
            /\ UNCHANGED <<tail_, ctail, cprev, empty, popped, nones>>
  /\ UNCHANGED <<head_, next, ppc, pidx, pprev, pret, cop>>
  /\ Watched

\* The test tail != head: a producer has exchanged head_ since tail was
\* pushed, and tail has no successor yet.
StillAddingMut(tail, head) == TRUE
StillAdding(tail, head) == tail # head

\* Node* head = head_.load(acquire);
\* if (tail != head) { *empty = false; return nullptr; }
PopLoadHead ==
  /\ cpc = "loadhead"
  /\ IF StillAdding(ctail, head_)
       THEN /\ empty' = FALSE
            /\ ReturnNull
       ELSE /\ cpc' = "stubclear"
            /\ UNCHANGED <<ctail, cnext, cprev, empty, popped, nones>>
  /\ UNCHANGED <<head_, tail_, next, ppc, pidx, pprev, pret, cop>>
  /\ Watched

\* Push(&stub_): stub_.next.store(nullptr)
PopStubClear ==
  /\ cpc = "stubclear"
  /\ next' = [next EXCEPT ![stub_] = ClearedNext(@)]
  /\ cpc' = "stubxchg"
  /\ UNCHANGED <<head_, tail_, ppc, pidx, pprev, pret, cop, ctail, cnext,
                 cprev, empty, popped, nones>>
  /\ Watched

\* Push(&stub_): prev = head_.exchange(&stub_)
PopStubExchange ==
  /\ cpc = "stubxchg"
  /\ cprev' = head_
  /\ head_' = ExchangedHead(stub_, head_)
  /\ cpc' = "stublink"
  /\ UNCHANGED <<tail_, next, ppc, pidx, pprev, pret, cop, ctail, cnext,
                 empty, popped, nones>>
  /\ Watched

\* Push(&stub_): prev->next.store(&stub_)
PopStubLink ==
  /\ cpc = "stublink"
  /\ next' = LinkedNext(next, cprev, stub_)
  /\ cpc' = "final"
  /\ UNCHANGED <<head_, tail_, ppc, pidx, pprev, pret, cop, ctail, cnext,
                 cprev, empty, popped, nones>>
  /\ Watched

\* next = tail->next.load(acquire);
\* if (next != nullptr) { *empty = false; tail_ = next; return tail; }
\* *empty = false; return nullptr;
PopFinal ==
  /\ cpc = "final"
  /\ empty' = FALSE
  /\ IF next[ctail] # nullptr
       THEN /\ tail_' = next[ctail]
            /\ ReturnNode(PoppedNode(ctail, next[ctail]))
       ELSE /\ ReturnNull
            /\ UNCHANGED tail_
  /\ UNCHANGED <<head_, next, ppc, pidx, pprev, pret, cop>>
  /\ Watched

ProducerStep(p) == PushClearNext(p) \/ PushExchange(p) \/ PushLink(p)

\* The steps inside a call of the consumer, whichever entry point opened it.
PopSteps ==
  \/ PopCheckStub
  \/ PopReload
  \/ PopLoadHead
  \/ PopStubClear
  \/ PopStubExchange
  \/ PopStubLink
  \/ PopFinal

ConsumerStep == Pop \/ PopAndCheckEnd \/ PopSteps

QNext == (\E p \in Producers : ProducerStep(p)) \/ ConsumerStep

\* The queue with a consumer that calls nothing but Pop.
QNextPop == (\E p \in Producers : ProducerStep(p)) \/ Pop \/ PopSteps

----------------------------------------------------------------------------
(* LockedMultiProducerSingleConsumerQueue: queue_ with the mutex mu_ on    *)
(* the popping side.  Push is queue_.Push and takes no lock.               *)
NumPoppers == 2
\* Push calls made in all on the locked queue.
MaxLockedPushes == 2
Poppers == 1..NumPoppers

LInit ==
  /\ mu_ = 0
  /\ lpc = [t \in Poppers |-> "idle"]
  /\ lnode = nullptr
  /\ lseen = {}

\* The plain queue has no mutex and no popping threads.
LIdle ==
  /\ mu_ = -1
  /\ lpc = [t \in Poppers |-> "idle"]
  /\ lnode = nullptr
  /\ lseen = {}

\* The Push of node n has returned.
Pushed(n) ==
  LET p == OwnerOf(n)
      k == n - (p - 1) * NodesPerProducer
  IN  pidx[p] > k \/ (pidx[p] = k /\ ppc[p] = "idle")
\* The nodes whose Push has returned and that no call has returned.
Unpopped ==
  {n \in Nodes : Pushed(n) /\ \A i \in 1..Len(popped) : popped[i] # n}

\* A step that makes no access to queue_.
OutsideQueue ==
  /\ UNCHANGED <<head_, tail_, next, ppc, pidx, pprev, pret, cpc, cop, ctail,
                 cnext, cprev, empty, popped, nones>>
  /\ Watched

\* Whether mu_ can be taken.
FreeMut(mu) == TRUE
Free(mu) == mu = 0

\* Whether Pop calls queue_.PopAndCheckEnd(&empty) again.
Retries(node, isEmpty) == node = nullptr /\ ~isEmpty

\* Pop() is called.
LockedPopCall(t) ==
  /\ lpc[t] = "idle"
  /\ lpc' = [lpc EXCEPT ![t] = "Pop.lock"]
  /\ lseen' = IF t = 1 THEN Unpopped ELSE lseen
  /\ UNCHANGED <<mu_, lnode>>
  /\ OutsideQueue

\* Pop(): MutexLock lock(&mu_)
LockedPopLock(t) ==
  /\ lpc[t] = "Pop.lock"
  /\ Free(mu_)
  /\ mu_' = t
  /\ lpc' = [lpc EXCEPT ![t] = "Pop.in"]
  /\ UNCHANGED <<lnode, lseen>>
  /\ OutsideQueue

\* TryPop(): if (mu_.TryLock()) ...; otherwise return nullptr
LockedTryPop(t) ==
  /\ lpc[t] = "idle"
  /\ IF Free(mu_)
       THEN /\ mu_' = t
            /\ lpc' = [lpc EXCEPT ![t] = "TryPop.in"]
       ELSE UNCHANGED <<mu_, lpc>>
  /\ UNCHANGED <<lnode, lseen>>
  /\ OutsideQueue

\* Pop(): node = queue_.PopAndCheckEnd(&empty); TryPop(): node =
\* queue_.Pop().  The call into queue_ opens.
LockedQueueCall(t) ==
  /\ lpc[t] \in {"Pop.in", "TryPop.in"}
  /\ PopBegin(IF lpc[t] = "Pop.in" THEN "PopAndCheckEnd" ELSE "Pop")
  /\ UNCHANGED lvars

\* A step inside queue_.  When it returns, TryPop goes on to return node;
\* Pop does so unless node == nullptr && !empty, and calls queue_ again then.
LockedQueueStep(t) ==
  /\ lpc[t] \in {"Pop.in", "TryPop.in"}
  /\ cpc # "idle"
  /\ PopSteps
  /\ IF cpc' = "idle"
       THEN LET node == IF popped' # popped THEN popped'[Len(popped')]
                        ELSE nullptr
            IN  /\ lnode' = node
                /\ lpc' = [lpc EXCEPT ![t] =
                             IF @ = "TryPop.in" THEN "TryPop.done"
                             ELSE IF Retries(node, empty') THEN "Pop.in"
                             ELSE "Pop.done"]
       ELSE UNCHANGED <<lnode, lpc>>
  /\ UNCHANGED <<mu_, lseen>>

\* mu_ is released and node is returned.
LockedReturn(t) ==
  /\ lpc[t] \in {"Pop.done", "TryPop.done"}
  /\ mu_' = 0
  /\ lpc' = [lpc EXCEPT ![t] = "idle"]
  /\ lnode' = nullptr
  /\ lseen' = IF t = 1 THEN {} ELSE lseen
  /\ OutsideQueue

\* Push(node): queue_.Push(node).
LockedPush(p) ==
  /\ ppc[p] = "idle" => PushesStarted < MaxLockedPushes
  /\ ProducerStep(p)
  /\ UNCHANGED lvars

LNext ==
  \/ \E p \in Producers : LockedPush(p)
  \/ \E t \in Poppers : LockedPopCall(t)
  \/ \E t \in Poppers : LockedPopLock(t)
  \/ \E t \in Poppers : LockedTryPop(t)
  \/ \E t \in Poppers : LockedQueueCall(t)
  \/ \E t \in Poppers : LockedQueueStep(t)
  \/ \E t \in Poppers : LockedReturn(t)


(***************************************************************************)
(*        ConnectivityStateTracker and the asynchronous notifier           *)
(***************************************************************************)
VARIABLES
  state_,       \* std::atomic<grpc_connectivity_state> state_
  status_,      \* absl::Status status_
  watchers_,    \* the set of watchers the tracker owns
  destroyed,    \* ~ConnectivityStateTracker() has run
  added,        \* watcher objects already handed to AddWatcher
  wsq,          \* the work serializer's queue of Notifier callbacks
  execq,        \* Notifier closures handed to the executor, not yet run
  running,      \* Notifiers inside OnConnectivityStateChange
  delivered,    \* per watcher: the notifications delivered, in order
  overlapped,   \* per watcher: two of its deliveries ran at the same time
  issued,       \* history, per watcher: the Notify calls made on it
  expected,     \* history, per watcher: the states it is due since AddWatcher
  removed,      \* history: watchers taken out by RemoveWatcher
  order,        \* history: the attached watchers in AddWatcher order
  call,         \* history: the last call made on the tracker
  lastNotified, \* history: the Notify calls of that call, in order
  nops,         \* calls made on the tracker so far
  limit         \* calls the run makes on the tracker in all

tvars == <<state_, status_, watchers_, destroyed, added, wsq, execq, running,
           delivered, overlapped, issued, expected, removed, order,
           call, lastNotified, nops, limit>>

\* Tracker state that delivering a notification leaves alone.
trackerVars == <<state_, status_, watchers_, destroyed, added, issued,
                 expected, removed, order, call, lastNotified, nops,
                 limit>>

\* grpc_connectivity_state
States == {"IDLE", "CONNECTING", "READY", "TRANSIENT_FAILURE", "SHUTDOWN"}
\* absl::Status values passed to SetState: OK and one error.
Statuses == {"OK", "UNAVAILABLE"}

Watchers == 1..NumWatchers
\* How a watcher's Notify hands the notification on: through its work
\* serializer ("ws"), through the executor when it has no work serializer
\* ("exec"), or in place for a synchronous watcher ("sync").
KindOf(w) ==
  IF w % 3 = 1 THEN "ws" ELSE IF w % 3 = 2 THEN "exec" ELSE "sync"
Async == {w \in Watchers : KindOf(w) # "sync"}

\* The orders in which the tracker's container may iterate the watchers of
\* set S: watchers_ is keyed by the watcher's address (insert(ptr),
\* erase(key)), so the order is the container's, whatever the insertions.
RECURSIVE IterationOrders(_)
IterationOrders(S) ==
  IF S = {} THEN {<<>>}
  ELSE UNION {{<<w>> \o q : q \in IterationOrders(S \ {w})} : w \in S}

Range(q) == {q[i] : i \in 1..Len(q)}
RECURSIVE Without(_, _)
Without(q, x) ==
  IF q = <<>> THEN <<>>
  ELSE IF Head(q) = x THEN Without(Tail(q), x)
       ELSE <<Head(q)>> \o Without(Tail(q), x)
\* The members of sequence q that are in set S, in q's order.
RECURSIVE Select(_, _)
Select(q, S) ==
  IF q = <<>> THEN <<>>
  ELSE IF Head(q) \in S THEN <<Head(q)>> \o Select(Tail(q), S)
       ELSE Select(Tail(q), S)

\* ConnectivityStateTracker(name, state = IDLE, status = OK)
TInit ==
  /\ state_ = "IDLE"
  /\ status_ = "OK"
  /\ watchers_ = {}
  /\ destroyed = FALSE
  /\ added = {}
  /\ wsq = <<>>
  /\ execq = {}
  /\ running = {}
  /\ delivered = [w \in Watchers |-> <<>>]
  /\ overlapped = [w \in Watchers |-> FALSE]
  /\ issued = [w \in Watchers |-> <<>>]
  /\ expected = [w \in Watchers |-> <<>>]
  /\ removed = {}
  /\ order = <<>>
  /\ call = [op |-> "none"]
  /\ lastNotified = <<>>
  /\ nops = 0

\* A Notifier: the i-th notification issued to watcher w.
NotifierMut(w, i) == [w |-> w, i |-> 1]
Notifier(w, i) == [w |-> w, i |-> i]

\* Notifier(): if (work_serializer != nullptr) work_serializer->Run(...)
\* else ExecCtx::Run(...)
UsesSerializerMut(w) == FALSE
UsesSerializer(w) == KindOf(w) = "ws"

\* The effect of watcher->Notify(state, status) on every watcher of the
\* sequence ws, in that order.  A synchronous watcher is called in place;
\* an asynchronous one creates a Notifier, which work_serializer->Run()
\* queues or ExecCtx::Run() hands to the executor.
NotifyAll(ws, state, status) ==
  LET S == Range(ws)
      n(w) == Notifier(w, Len(issued[w]) + 1)
      viaWs == Select(ws, {w \in S \cap Async : UsesSerializer(w)})
  IN  /\ issued' = [w \in Watchers |->
                      IF w \in S THEN Append(issued[w], [state |-> state,
                                                         status |-> status])
                      ELSE issued[w]]
      /\ wsq' = wsq \o [i \in 1..Len(viaWs) |-> n(viaWs[i])]
      /\ execq' = execq \cup
                    {n(w) : w \in {x \in S \cap Async : ~UsesSerializer(x)}}
      /\ delivered' = [w \in Watchers |->
                         IF w \in S /\ KindOf(w) = "sync"
                           THEN Append(delivered[w], Len(issued[w]) + 1)
                           ELSE delivered[w]]
      /\ lastNotified' = [i \in 1..Len(ws) |->
                            [w |-> ws[i], state |-> state, status |-> status]]

\* The watchers followed: handed to AddWatcher with a hint that differed
\* from the state, and never removed.  Each is due the new state of every
\* state-changing SetState, up to the one that enters SHUTDOWN.
Due(exp, state) ==
  [w \in Watchers |->
     IF /\ exp[w] # <<>>
        /\ w \notin removed
        /\ exp[w][Len(exp[w])] # "SHUTDOWN"
       THEN Append(exp[w], state)
       ELSE exp[w]]

\* The watchers SetState(state) notifies, in order, out of the set ws it
\* owns: for (const auto& watcher : watchers_) watcher->Notify(...)
NotifiedBySetStateMut(ws, state) == IF state = "SHUTDOWN" THEN <<>> ELSE ws
NotifiedBySetStateTwice(ws, state) == ws \o ws
NotifiedBySetState(ws, state) == ws

\* The watcher set after a SetState to `state`.
WatchersAfterSetStateMut(ws, state) == ws
WatchersAfterSetState(ws, state) == IF state = "SHUTDOWN" THEN {} ELSE ws

\* if (state == current_state) return;
IsCurrentMut(state, current_state) == FALSE
IsCurrent(state, current_state) == state = current_state

\* void ConnectivityStateTracker::SetState(state, status, reason)
SetState(state, status) ==
  /\ ~destroyed
  /\ nops < limit
  /\ nops' = nops + 1
  /\ call' = [op |-> "SetState", state |-> state, status |-> status]
  /\ IF IsCurrent(state, state_)
       THEN /\ lastNotified' = <<>>
            /\ UNCHANGED <<state_, status_, watchers_, issued, wsq, execq,
                           delivered, expected, order>>
       ELSE /\ state_' = state
            /\ status_' = status
            /\ expected' = Due(expected, state)
            /\ \E ws \in IterationOrders(watchers_) :
                 NotifyAll(NotifiedBySetState(ws, state), state, status)
            /\ watchers_' = WatchersAfterSetState(watchers_, state)
            /\ order' = Select(order, watchers_')
  /\ UNCHANGED <<destroyed, added, running, overlapped, removed, limit>>

\* Whether AddWatcher notifies the new watcher at once.
NotifiesOnAddMut(initial_state, current_state) == initial_state = current_state
NotifiesOnAddAlways(initial_state, current_state) == TRUE
NotifiesOnAdd(initial_state, current_state) == initial_state # current_state

\* Whether AddWatcher keeps the watcher.
KeepsWatcherMut(current_state) == TRUE
KeepsWatcher(current_state) == current_state # "SHUTDOWN"

\* void ConnectivityStateTracker::AddWatcher(initial_state, watcher)
\* The watcher is a fresh object, handed over for good.
AddWatcher(initial_state, w) ==
  /\ ~destroyed
  /\ nops < limit
  /\ w \notin added
  /\ added' = added \cup {w}
  /\ nops' = nops + 1
  /\ call' = [op |-> "AddWatcher", w |-> w,
              differs |-> initial_state # state_]
  /\ expected' = IF initial_state # state_
                    THEN [expected EXCEPT ![w] = <<state_>>]
                    ELSE expected
  /\ IF NotifiesOnAdd(initial_state, state_)
       THEN NotifyAll(<<w>>, state_, status_)
       ELSE /\ lastNotified' = <<>>
            /\ UNCHANGED <<issued, wsq, execq, delivered>>
  /\ IF KeepsWatcher(state_)
       THEN /\ watchers_' = watchers_ \cup {w}
            /\ order' = Append(order, w)
       ELSE UNCHANGED <<watchers_, order>>
  /\ UNCHANGED <<state_, status_, destroyed, running, overlapped, removed, limit>>

\* watchers_.erase(watcher): the watcher set afterwards.
ErasedMut(ws, w) == {}
Erased(ws, w) == ws \ {w}

\* void ConnectivityStateTracker::RemoveWatcher(watcher)
RemoveWatcher(w) ==
  /\ ~destroyed
  /\ nops < limit
  /\ nops' = nops + 1
  /\ call' = [op |-> "RemoveWatcher", w |-> w]
  /\ lastNotified' = <<>>
  /\ watchers_' = Erased(watchers_, w)
  /\ order' = Without(order, w)
  /\ removed' = IF w \in watchers_ THEN removed \cup {w} ELSE removed
  /\ UNCHANGED <<state_, status_, destroyed, added, wsq, execq, running,
                 delivered, overlapped, issued, expected, limit>>

\* grpc_connectivity_state state = state_.load(relaxed); return state;
LoadedStateMut(current_state) == "IDLE"
LoadedState(current_state) == current_state

\* grpc_connectivity_state ConnectivityStateTracker::state() const
GetState ==
  /\ ~destroyed
  /\ nops < limit
  /\ nops' = nops + 1
  /\ call' = [op |-> "state", result |-> LoadedState(state_)]
  /\ lastNotified' = <<>>
  /\ UNCHANGED <<state_, status_, watchers_, destroyed, added, wsq, execq,
                 running, delivered, overlapped, issued, expected, removed,
                 order, limit>>

\* if (current_state == GRPC_CHANNEL_SHUTDOWN) return;
ReturnsAtOnceMut(current_state) == TRUE
ReturnsAtOnce(current_state) == current_state = "SHUTDOWN"

\* ConnectivityStateTracker::~ConnectivityStateTracker()
Destroy ==
  /\ ~destroyed
  /\ destroyed' = TRUE
  /\ call' = [op |-> "destroy"]
  /\ IF ReturnsAtOnce(state_)
       THEN /\ lastNotified' = <<>>
            /\ UNCHANGED <<issued, wsq, execq, delivered>>
       ELSE \E ws \in IterationOrders(watchers_) :
              NotifyAll(ws, "SHUTDOWN", "OK")
  /\ watchers_' = {}
  /\ order' = <<>>
  /\ UNCHANGED <<state_, status_, added, running, overlapped, expected,
                 removed, nops, limit>>

----------------------------------------------------------------------------
(* Delivery of the asynchronous notifications.                             *)

\* Notifier n enters watcher_->OnConnectivityStateChange(state_, status_).
BeginDelivery(n) ==
  /\ running' = running \cup {n}
  /\ delivered' = [delivered EXCEPT ![n.w] = Append(@, n.i)]
  /\ overlapped' = [overlapped EXCEPT ![n.w] =
                      @ \/ \E m \in running : m.w = n.w]

\* The callback a work serializer with queue q runs next, and the queue left.
SerializerNextMut(q) == Len(q)
SerializerNext(q) == 1
SerializerRest(q) ==
  [i \in 1..(Len(q) - 1) |->
     IF i < SerializerNext(q) THEN q[i] ELSE q[i + 1]]

\* The work serializer runs its callbacks one at a time, in the order
\* they were queued: the next one starts when none is running.
SerializerRun ==
  /\ wsq # <<>>
  /\ \A m \in running : m.viaWs = FALSE
  /\ BeginDelivery([w |-> wsq[SerializerNext(wsq)].w,
                    i |-> wsq[SerializerNext(wsq)].i, viaWs |-> TRUE])
  /\ wsq' = SerializerRest(wsq)
  /\ UNCHANGED execq
  /\ UNCHANGED trackerVars

\* The executor runs a closure it was handed on some worker thread.
ExecutorRun ==
  /\ \E n \in execq :
       /\ BeginDelivery([w |-> n.w, i |-> n.i, viaWs |-> FALSE])
       /\ execq' = execq \ {n}
  /\ UNCHANGED wsq
  /\ UNCHANGED trackerVars

\* OnConnectivityStateChange returns; delete self.
EndDelivery ==
  /\ \E n \in running : running' = running \ {n}
  /\ UNCHANGED <<wsq, execq, delivered, overlapped>>
  /\ UNCHANGED trackerVars

TrackerStep ==
  \/ \E s \in States, st \in Statuses : SetState(s, st)
  \/ \E s \in States, w \in Watchers : AddWatcher(s, w)
  \/ \E w \in Watchers : RemoveWatcher(w)
  \/ GetState
  \/ Destroy

DeliveryStep == SerializerRun \/ ExecutorRun \/ EndDelivery

TNext == TrackerStep \/ DeliveryStep

(***************************************************************************)
(*                               TDigest                                   *)
(***************************************************************************)
VARIABLES
  digest,     \* the fields of the TDigest object
  ndebug,     \* the build: TRUE when ABSL_DCHECK is compiled out
  aborted,    \* a failed ABSL_DCHECK ended the process (debug build)
  ingested,   \* sum of the counts given to Add and of the digests merged in
  lo,         \* smallest sample value ingested
  hi,         \* largest sample value ingested
  dops        \* number of calls made on the digest

dvars == <<digest, ndebug, aborted, ingested, lo, hi, dops>>

\* Doubles are exact rationals [n, d] in lowest terms, d > 0: the rounding
\* of floating point arithmetic is left out.  [1, 0] and [-1, 0] are the
\* infinities and [0, 0] is NaN, which the sums, differences and products
\* below hand on and which is neither less than nor equal to any double.
Abs(i) == IF i < 0 THEN -i ELSE i
RECURSIVE Gcd(_, _)
Gcd(a, b) == IF b = 0 THEN a ELSE Gcd(b, a % b)
Rat(n, d) ==
  LET g == Gcd(Abs(n), d)
  IN  IF n = 0 THEN [n |-> 0, d |-> IF d = 0 THEN 0 ELSE 1]
      ELSE [n |-> n \div g, d |-> d \div g]
Double(i) == [n |-> i, d |-> 1]
Plus(a, b) == Rat(a.n * b.d + b.n * a.d, a.d * b.d)
Minus(a, b) == Rat(a.n * b.d - b.n * a.d, a.d * b.d)
Times(a, k) == Rat(a.n * k, a.d)
Over(a, k) == Rat(a.n, a.d * k)
Less(a, b) == a.n * b.d < b.n * a.d

kMaxCompression == 1000000
\* std::numeric_limits<double>::max(), standing above every sample value.
DoubleMax == 1000
Compressions == {0, 1, 2}
\* The sample values and the counts given to Add.
Values == {1, 2}
Counts == {0, 1, 2}

BoundedCompression(compression) ==
  IF kMaxCompression < compression THEN kMaxCompression ELSE compression

\* 2 * ceil(compression), the compressions of the model being whole numbers.
MaxCentroids(compression) == 2 * BoundedCompression(compression)

CentroidPod(mean, count) == [mean |-> mean, count |-> count]

\* operator< of CentroidPod: by mean, then by count.
CentroidLess(a, b) ==
  Less(a.mean, b.mean) \/ (a.mean = b.mean /\ a.count < b.count)

RECURSIVE Insert(_, _)
Insert(c, q) ==
  IF q = <<>> THEN <<c>>
  ELSE IF CentroidLess(Head(q), c) THEN <<Head(q)>> \o Insert(c, Tail(q))
  ELSE <<c>> \o q

\* std::sort(centroids_.begin(), centroids_.end())
RECURSIVE Sort(_)
Sort(q) == IF q = <<>> THEN <<>> ELSE Insert(Head(q), Sort(Tail(q)))

\* The ABSL_DCHECK that fails in a call, if its condition is violated.
Failed(check, violated) == IF violated THEN {check} ELSE {}

\* The object after Reset(compression).
BatchSizeFor(compression) == 4 * MaxCentroids(compression)
Reset(compression) ==
  [compression_ |-> BoundedCompression(compression),
   batch_size_  |-> BatchSizeFor(BoundedCompression(compression)),
   centroids_   |-> <<>>,
   merged_      |-> 0,
   unmerged_    |-> 0,
   min_         |-> Double(DoubleMax),
   max_         |-> Double(-DoubleMax),
   sum_         |-> Double(0),
   count_       |-> 0,
   dcheck       |-> Failed("batch_size_ > 0",
                          ~(BoundedCompression(compression) = 0
                            \/ BatchSizeFor(BoundedCompression(compression))
                                 > 0))]

\* UpdateStats(min, max, sum, count), of the class declaration.
UpdateStats(d, min, max, sum, count) ==
  [d EXCEPT !.min_ = IF Less(min, d.min_) THEN min ELSE d.min_,
            !.max_ = IF Less(d.max_, max) THEN max ELSE d.max_,
            !.count_ = d.count_ + count,
            !.sum_ = Plus(d.sum_, sum)]

\* first_unmerged->count + merged_count <= q_limit, where s is the left
\* side and q_limit = total_count * CentroidToQuantile(q0 + 1) was computed
\* when merged_count was m (m = -1: at the start, with q0 = 0).
\*   compression 0: CentroidToQuantile divides 0 by 0, q_limit is NaN;
\*   compression 1: q0 + 1 >= compression, q_limit = total_count;
\*   compression 2: q_limit = total_count / 2 at the start; afterwards
\*     q0 = 2 (asin(2m/T - 1) + pi/2) / pi and
\*     q_limit = T (1 + sqrt(1 - (2m/T - 1)^2)) / 2, or T once q0 >= 1,
\*     or NaN when 2m/T - 1 is outside [-1, 1].
WithinLimitMut(compression, total_count, m, s) == FALSE
WithinLimit(compression, total_count, m, s) ==
  IF compression = 0 THEN FALSE
  ELSE IF compression = 1
    THEN IF m = -1 THEN s <= total_count
         ELSE IF total_count <= 0 \/ m > total_count THEN FALSE
         ELSE s <= total_count
  ELSE IF m = -1 THEN 2 * s <= total_count
  ELSE IF total_count <= 0 \/ m > total_count THEN FALSE
  ELSE IF 2 * m >= total_count THEN s <= total_count
  ELSE \/ 2 * s - total_count <= 0
       \/ (2 * s - total_count) * (2 * s - total_count)
            <= 4 * m * (total_count - m)

\* Welford's update of last_merged with first_unmerged.
AbsorbMut(last, u) ==
  [count |-> last.count,
   mean  |-> Plus(last.mean,
                  Over(Times(Minus(u.mean, last.mean), u.count),
                       last.count + u.count))]
Absorb(last, u) ==
  [count |-> last.count + u.count,
   mean  |-> Plus(last.mean,
                  Over(Times(Minus(u.mean, last.mean), u.count),
                       last.count + u.count))]

\* The loop of DoMerge over the sorted centroids from index i on.  st holds
\* the merged centroids (the last one is last_merged), merged_count, the
\* merged_count q_limit was computed for, and sum_.
RECURSIVE MergeLoop(_, _, _, _, _)
MergeLoop(compression, total_count, sorted, i, st) ==
  IF i > Len(sorted) THEN st
  ELSE
    LET u    == sorted[i]
        last == st.cs[Len(st.cs)]
    IN  IF WithinLimit(compression, total_count, st.m,
                       u.count + st.merged_count)
          THEN MergeLoop(compression, total_count, sorted, i + 1,
                 [st EXCEPT !.cs[Len(st.cs)] = Absorb(last, u),
                            !.merged_count = st.merged_count + u.count])
          ELSE MergeLoop(compression, total_count, sorted, i + 1,
                 [cs |-> Append(st.cs, u),
                  merged_count |-> st.merged_count + u.count,
                  m |-> st.merged_count,
                  sum_ |-> Plus(st.sum_, Times(last.mean, last.count))])

\* DoMerge() from the loop on, std::sort having left centroids_ as sorted.
DoMergeSorted(d, sorted) ==
  IF d.unmerged_ = 0 THEN d
  ELSE
    LET st == MergeLoop(d.compression_, d.count_, sorted, 2,
                        [cs |-> <<sorted[1]>>,
                         merged_count |-> sorted[1].count,
                         m |-> -1,
                         sum_ |-> Double(0)])
        last  == st.cs[Len(st.cs)]
        front == st.cs[1]
    IN  [d EXCEPT !.centroids_ = st.cs,
                  !.merged_ = Len(st.cs),
                  !.unmerged_ = 0,
                  !.sum_ = Plus(st.sum_, Times(last.mean, last.count)),
                  !.min_ = IF Less(front.mean, d.min_)
                             THEN front.mean ELSE d.min_,
                  !.max_ = IF Less(d.max_, last.mean)
                             THEN last.mean ELSE d.max_,
                  !.dcheck = d.dcheck \cup
                    Failed("centroids_.size() <= MaxCentroids",
                           Len(st.cs) > MaxCentroids(d.compression_))]

DoMerge(d) == DoMergeSorted(d, Sort(d.centroids_))

\* The same without ++unmerged_.
AddUnmergedCentroidMut(d, centroid) ==
  LET e == [d EXCEPT !.dcheck = d.dcheck \cup
                       Failed("unmerged_ < batch_size_",
                              ~(d.unmerged_ < d.batch_size_)),
                     !.centroids_ = Append(d.centroids_, centroid)]
  IN  IF e.unmerged_ = e.batch_size_ THEN DoMerge(e) ELSE e
AddUnmergedCentroid(d, centroid) ==
  LET e == [d EXCEPT !.dcheck = d.dcheck \cup
                       Failed("unmerged_ < batch_size_",
                              ~(d.unmerged_ < d.batch_size_)),
                     !.centroids_ = Append(d.centroids_, centroid),
                     !.unmerged_ = d.unmerged_ + 1]
  IN  IF e.unmerged_ = e.batch_size_ THEN DoMerge(e) ELSE e

Add(d, val, count) ==
  IF count = 0 THEN d
  ELSE AddUnmergedCentroid(
         UpdateStats(d, val, val, Times(val, count), count),
         CentroidPod(val, count))

RECURSIVE AddAll(_, _)
AddAll(d, centroids) ==
  IF centroids = <<>> THEN d
  ELSE AddAll(AddUnmergedCentroid(d, Head(centroids)), Tail(centroids))

\* Whether Merge first resets the receiver to the argument's compression.
AdoptsCompression(d) == d.compression_ = 0

Merge(d, that) ==
  LET e == IF AdoptsCompression(d) THEN Reset(that.compression_) ELSE d
  IN  AddAll(UpdateStats(e, that.min_, that.max_, that.sum_, that.count_),
             that.centroids_)

\* Products and quotients of doubles.  A quotient by zero is NaN (0/0) or
\* an infinity, kept as [n, 0].
kNan == [n |-> 0, d |-> 0]
IsNan(x) == x.n = 0 /\ x.d = 0
Mul(a, b) == Rat(a.n * b.n, a.d * b.d)
\* a >= b
Geq(a, b) == ~IsNan(a) /\ ~IsNan(b) /\ ~Less(a, b)
Div(a, b) ==
  IF IsNan(a) \/ IsNan(b) THEN kNan
  ELSE IF b.d = 0 THEN IF a.d = 0 THEN kNan ELSE Double(0)
  ELSE IF b.n = 0
    THEN [n |-> IF a.n > 0 THEN 1 ELSE IF a.n < 0 THEN -1 ELSE 0, d |-> 0]
  ELSE IF b.n > 0 THEN Rat(a.n * b.d, a.d * b.n)
  ELSE Rat(-(a.n * b.d), a.d * (-b.n))

\* The value returned and the ABSL_DCHECKs that failed.
LinearInterpolate(val1, val2, weight1, weight2) ==
  [ret |-> Div(Plus(Mul(val1, weight1), Mul(val2, weight2)),
               Plus(weight1, weight2)),
   dcheck |-> Failed("weight1 >= 0", ~Geq(weight1, Double(0)))
                \cup Failed("weight2 >= 0", ~Geq(weight2, Double(0)))
                \cup Failed("weight1 + weight2 > 0",
                            ~Less(Double(0), Plus(weight1, weight2)))]

\* What a query gives: the value returned, the object it leaves, and
\* whether it read centroids_ past its end.
Answer(ret, d, dcheck, past_end) ==
  [ret |-> ret, d |-> [d EXCEPT !.dcheck = d.dcheck \cup dcheck],
   past_end |-> past_end]

\* The inner loop of Cdf over the centroids whose mean is val, from the
\* centroid at i (counted from 1) on.
RECURSIVE SameMeanLoop(_, _, _, _)
SameMeanLoop(cs, val, i, accum_count) ==
  IF i + 1 > Len(cs) THEN [accum_count |-> accum_count, past_end |-> TRUE]
  ELSE IF cs[i + 1].mean = val
    THEN SameMeanLoop(cs, val, i + 1,
                      Plus(accum_count, Double(cs[i].count + cs[i + 1].count)))
  ELSE [accum_count |-> accum_count, past_end |-> FALSE]

\* The loop of Cdf from the centroid at i (counted from 1) on.
RECURSIVE CdfLoop(_, _, _, _)
CdfLoop(d, val, i, accum_count) ==
  LET cs == d.centroids_
  IN  IF i > Len(cs)
        THEN Answer(kNan, d, {"Cannot measure CDF"}, FALSE)
      ELSE IF cs[i].mean = val
        THEN LET same == SameMeanLoop(cs, val, i, accum_count)
             IN  Answer(Div(Over(Plus(accum_count, same.accum_count), 2),
                            Double(d.count_)),
                        d, {}, same.past_end)
      ELSE IF i + 1 > Len(cs) THEN Answer(kNan, d, {}, TRUE)
      ELSE IF Geq(val, cs[i].mean) /\ Less(val, cs[i + 1].mean)
        THEN LET mean1 == cs[i].mean
                 mean2 == cs[i + 1].mean
                 mean_ratio == IF Geq(mean1, mean2) THEN Double(1)
                               ELSE Div(Minus(val, mean1), Minus(mean2, mean1))
                 delta_count == Over(Double(cs[i].count + cs[i + 1].count), 2)
             IN  Answer(Div(Plus(accum_count, Mul(delta_count, mean_ratio)),
                            Double(d.count_)),
                        d, {}, FALSE)
      ELSE CdfLoop(d, val, i + 1,
                   Plus(accum_count,
                        Over(Double(cs[i].count + cs[i + 1].count), 2)))

SingleCentroidCdf(val, min, max) == Div(Minus(val, min), Minus(min, max))

Cdf(d0, val) ==
  LET d    == DoMerge(d0)
      cs   == d.centroids_
      back == cs[Len(cs)]
      ne   == Failed("min_ != max_", d.min_ = d.max_)
  IN  IF d.merged_ = 0 THEN Answer(kNan, d, {}, FALSE)
      ELSE IF Less(val, d.min_) THEN Answer(Double(0), d, {}, FALSE)
      ELSE IF Geq(val, d.max_) THEN Answer(Double(1), d, {}, FALSE)
      ELSE IF d.merged_ = 1
        THEN Answer(SingleCentroidCdf(val, d.min_, d.max_), d, ne, FALSE)
      ELSE IF Less(val, cs[1].mean)
        THEN LET r == LinearInterpolate(
                        Double(0),
                        Over(Div(Double(cs[1].count), Double(d.count_)), 2),
                        Minus(cs[1].mean, val), Minus(val, d.min_))
             IN  Answer(r.ret, d, ne \cup r.dcheck, FALSE)
      ELSE IF Geq(val, back.mean)
        THEN LET r == LinearInterpolate(
                        Minus(Double(1),
                              Over(Div(Double(back.count), Double(d.count_)),
                                   2)),
                        Double(1),
                        Minus(d.max_, val), Minus(val, back.mean))
             IN  Answer(r.ret, d, ne \cup r.dcheck, FALSE)
      ELSE LET r == CdfLoop(d, val, 1, Over(Double(cs[1].count), 2))
           IN  Answer(r.ret, r.d, ne, r.past_end)

\* The loop of Quantile from the centroid at i (counted from 1) on.
RECURSIVE QuantileLoop(_, _, _, _)
QuantileLoop(d, quantile_count, i, st) ==
  LET cs == d.centroids_
  IN  IF i > Len(cs) \/ Less(quantile_count, st.this_count) THEN st
      ELSE IF i = Len(cs)
        THEN QuantileLoop(d, quantile_count, i + 1,
               [prev_count |-> st.this_count, prev_val |-> st.this_val,
                this_count |-> Double(d.count_), this_val |-> d.max_])
      ELSE QuantileLoop(d, quantile_count, i + 1,
             [prev_count |-> st.this_count, prev_val |-> st.this_val,
              this_count |-> Plus(st.this_count,
                                  Over(Double(cs[i].count + cs[i + 1].count),
                                       2)),
              this_val |-> cs[i + 1].mean])

SingleCentroidQuantile(d) == d.centroids_[1].mean

Quantile(d0, quantile) ==
  LET d  == DoMerge(d0)
      cs == d.centroids_
      range == Failed("quantile <= 1", Less(Double(1), quantile))
                 \cup Failed("quantile >= 0", Less(quantile, Double(0)))
      quantile_count == Mul(quantile, Double(d.count_))
  IN  IF d.merged_ = 0 THEN Answer(kNan, d, range, FALSE)
      ELSE IF d.merged_ = 1
        THEN Answer(SingleCentroidQuantile(d), d, range, FALSE)
      ELSE LET st == QuantileLoop(d, quantile_count, 1,
                       [prev_count |-> Double(0), prev_val |-> d.min_,
                        this_count |-> Over(Double(cs[1].count), 2),
                        this_val |-> cs[1].mean])
               r  == LinearInterpolate(st.prev_val, st.this_val,
                       Minus(st.this_count, quantile_count),
                       Minus(quantile_count, st.prev_count))
           IN  Answer(r.ret, d, range \cup r.dcheck, FALSE)

\* A string is the sequence of its '/'-separated tokens.  A token is a
\* number (its value: "%0.17g" and SimpleAtod are inverse on doubles, "%d"
\* and SimpleAtoi on integers) or a "mean:count" pair.
Number(x) == [kind |-> "number", val |-> x]
Pair(mean, count) == [kind |-> "pair", mean |-> mean, count |-> count]
Garbage == [kind |-> "garbage"]
Empty == [kind |-> "empty"]
IsDouble(tok) == tok.kind = "number"
IsInteger(tok) == tok.kind = "number" /\ tok.val.d = 1

\* ToString(), a name the TLC module takes: the string returned and the object left behind.
DigestToString(d) ==
  IF d.count_ <= 1
    THEN IF d.count_ = 0
           THEN [str |-> <<Number(Double(d.compression_)), Number(Double(0)),
                           Number(Double(0)), Number(Double(0)),
                           Number(Double(0))>>,
                 d |-> d]
           ELSE [str |-> <<Number(Double(d.compression_)),
                           IF d.centroids_ = <<>> THEN Garbage
                           ELSE Number(d.centroids_[1].mean)>>,
                 d |-> d]
    ELSE LET e == DoMerge(d)
         IN  [str |-> <<Number(Double(e.compression_)), Number(e.min_),
                        Number(e.max_), Number(e.sum_),
                        Number(Double(e.count_))>>
                      \o [i \in 1..Len(e.centroids_) |->
                            Pair(e.centroids_[i].mean, e.centroids_[i].count)],
              d |-> e]

\* The loop of FromString over the centroid tokens from index i on: the
\* object after the Add calls, or the index of the token refused.
RECURSIVE ParseCentroids(_, _, _)
ParseCentroids(d, str, i) ==
  IF i > Len(str) THEN [bad |-> 0, d |-> d]
  ELSE IF str[i].kind # "pair" THEN [bad |-> i, d |-> d]
  ELSE ParseCentroids(Add(d, str[i].mean, str[i].count), str, i + 1)

\* ABSL_DCHECK_LT(std::abs(sum - sum_), 1e-10)
SumChecked(d, sum) ==
  [d EXCEPT !.dcheck = d.dcheck \cup Failed("sum", sum # d.sum_)]

\* FromString(string) on object d: the status returned and the object left.
\* The compressions written in the strings of the model are whole numbers.
InvalidArgument(d) == [status |-> "InvalidArgument", d |-> d]
Ok(d) == [status |-> "Ok", d |-> d]
FromString(d, str) ==
  IF str = <<>> THEN Ok(Reset(0))
  ELSE IF ~IsDouble(str[1]) \/ str[1].val.n < 0 THEN InvalidArgument(d)
  ELSE
    LET r == Reset(str[1].val.n \div str[1].val.d)
    IN
    IF Len(str) = 1 THEN InvalidArgument(r)
    ELSE IF Len(str) = 2
      THEN IF ~IsDouble(str[2]) THEN InvalidArgument(r)
           ELSE Ok(Add(r, str[2].val, 1))
    ELSE IF \/ Len(str) < 5
            \/ ~IsDouble(str[2]) \/ ~IsDouble(str[3]) \/ ~IsDouble(str[4])
            \/ ~IsInteger(str[5])
      THEN InvalidArgument(r)
    ELSE IF Len(str) = 5
      THEN IF \/ str[2].val # Double(0) \/ str[3].val # Double(0)
              \/ str[4].val # Double(0) \/ str[5].val # Double(0)
             THEN InvalidArgument(r)
             ELSE Ok(r)
    ELSE
      LET p == ParseCentroids(r, str, 6)
          m == DoMerge(p.d)
          e == [m EXCEPT !.min_ = str[2].val, !.max_ = str[3].val]
      IN  IF p.bad # 0 THEN InvalidArgument(p.d)
          ELSE IF e.centroids_ = <<>> THEN Ok(e)
          ELSE IF str[5].val.n # e.count_
            THEN InvalidArgument(SumChecked(e, str[4].val))
          ELSE Ok(SumChecked(e, str[4].val))

\* The digests a program of the given build can hand to Merge: constructed
\* and given up to MaxThatAdds samples.
RECURSIVE Built(_)
Built(k) ==
  IF k = 0 THEN {Reset(c) : c \in Compressions}
  ELSE Built(k - 1)
         \cup {Add(d, Double(v), 1) : d \in Built(k - 1), v \in Values}
\* In a debug build a digest whose construction failed an ABSL_DCHECK never
\* came to exist.
ReleaseBuilt == {[d EXCEPT !.dcheck = {}] : d \in Built(MaxThatAdds)}
DebugBuilt ==
  {[d EXCEPT !.dcheck = {}] : d \in {b \in Built(MaxThatAdds) : b.dcheck = {}}}
Thats == IF ndebug THEN ReleaseBuilt ELSE DebugBuilt
\* The strings ToString() gives for them.
ReleaseStrings == {DigestToString(d).str : d \in ReleaseBuilt}
DebugStrings == {DigestToString(d).str : d \in DebugBuilt}
ThatStrings == IF ndebug THEN ReleaseStrings ELSE DebugStrings

\* Strings that no ToString() wrote.  Malformed: the compression token is
\* empty, not a number or negative; nothing follows it; the single value is
\* not a number; the header stops before the count or holds a token that is
\* not a number; a centroid token is not a mean:count pair; the digest is
\* declared empty with a non-zero header; the declared count is not the sum
\* of the centroid counts.
N(i) == Number(Double(i))
Malformed ==
  { <<Empty, N(1)>>, <<Garbage, N(1)>>, <<N(-1), N(1)>>,
    <<N(1)>>,
    <<N(1), Garbage>>,
    <<N(1), N(0), N(0)>>, <<N(1), N(0), N(0), N(0)>>,
    <<N(1), N(1), N(1), N(1), Garbage, Pair(Double(1), 1)>>,
    <<N(1), N(1), N(1), N(1), N(1), Garbage>>,
    <<N(1), N(1), N(1), N(1), N(1), N(1)>>,
    <<N(1), N(1), N(0), N(0), N(0)>>, <<N(1), N(0), N(0), N(0), N(1)>>,
    <<N(1), N(1), N(1), N(1), N(2), Pair(Double(1), 1)>>,
    <<N(1), N(0), N(0), N(0), N(2), Pair(Double(1), 0)>> }
\* Well formed, with a header that does not tell the min and max of the
\* centroids written after it.
Foreign ==
  { <<N(1), N(2), N(1), N(3), N(2), Pair(Double(1), 1), Pair(Double(2), 1)>> }
Strings == ThatStrings \cup Malformed \cup Foreign

DInit ==
  /\ digest \in {Reset(c) : c \in Compressions}
  /\ ndebug \in BOOLEAN
  /\ aborted = FALSE
  /\ ingested = 0
  /\ lo = Double(DoubleMax)
  /\ hi = Double(-DoubleMax)
  /\ dops = 0

\* The other components' specifications leave the digest as constructed.
DIdle ==
  /\ digest = Reset(0)
  /\ ndebug = FALSE
  /\ aborted = FALSE
  /\ ingested = 0
  /\ lo = Double(DoubleMax)
  /\ hi = Double(-DoubleMax)
  /\ dops = 0

\* A call that leaves the object as result: a failed ABSL_DCHECK ends the
\* process in a debug build and is no check at all in a release build.
Returns(result) ==
  /\ ~aborted
  /\ dops < MaxDigestOps
  /\ dops' = dops + 1
  /\ IF result.dcheck # {} /\ ~ndebug
       THEN aborted' = TRUE /\ digest' = [digest EXCEPT !.dcheck = result.dcheck]
       ELSE aborted' = aborted /\ digest' = [result EXCEPT !.dcheck = {}]
  /\ UNCHANGED ndebug

Least(a, b) == IF Less(b, a) THEN b ELSE a
Greatest(a, b) == IF Less(a, b) THEN b ELSE a

CallReset(compression) ==
  /\ Returns(Reset(compression))
  /\ ingested' = 0
  /\ lo' = Double(DoubleMax)
  /\ hi' = Double(-DoubleMax)

CallAdd(val, count) ==
  /\ Returns(Add(digest, Double(val), count))
  /\ ingested' = ingested + count
  /\ lo' = IF count = 0 THEN lo ELSE Least(lo, Double(val))
  /\ hi' = IF count = 0 THEN hi ELSE Greatest(hi, Double(val))

\* that was built by Add alone: its min_ and max_ are those of its samples.
CallMerge(that) ==
  /\ Returns(Merge(digest, that))
  /\ ingested' = ingested + that.count_
  /\ lo' = Least(lo, that.min_)
  /\ hi' = Greatest(hi, that.max_)

CallToString ==
  /\ Returns(DigestToString(digest).d)
  /\ UNCHANGED <<ingested, lo, hi>>

\* FromString replaces what the object held by what the string tells.
CallFromString(str) ==
  /\ Returns(FromString(digest, str).d)
  /\ IF str # <<>> /\ (~IsDouble(str[1]) \/ str[1].val.n < 0)
       THEN UNCHANGED <<ingested, lo, hi>>
       ELSE /\ ingested' = digest'.count_
            /\ lo' = IF digest'.count_ = 0
                       THEN Double(DoubleMax) ELSE digest'.min_
            /\ hi' = IF digest'.count_ = 0
                       THEN Double(-DoubleMax) ELSE digest'.max_

\* The values Cdf is asked about and the quantiles Quantile is asked for.
QueryValues == {Double(0), Double(1), Rat(3, 2), Double(2), Double(3)}
Quantiles == {Double(0), Rat(1, 2), Double(1)}

\* A query that leaves the object as its answer tells.  A read past the end
\* of centroids_ is undefined: the process ends there or goes on.
Queried(answer) ==
  /\ ~aborted
  /\ dops < MaxDigestOps
  /\ \E ends \in IF answer.past_end THEN BOOLEAN ELSE {FALSE} :
       IF ends
         THEN /\ dops' = dops + 1
              /\ aborted' = TRUE
              /\ UNCHANGED <<digest, ndebug>>
         ELSE Returns(answer.d)

CallCdf(val) ==
  /\ Queried(Cdf(digest, val))
  /\ UNCHANGED <<ingested, lo, hi>>

CallQuantile(quantile) ==
  /\ Queried(Quantile(digest, quantile))
  /\ UNCHANGED <<ingested, lo, hi>>

DNext ==
  \/ \E c \in Compressions : CallReset(c)
  \/ \E v \in Values, n \in Counts : CallAdd(v, n)
  \/ \E that \in Thats : CallMerge(that)
  \/ \E val \in QueryValues : CallCdf(val)
  \/ \E quantile \in Quantiles : CallQuantile(quantile)
  \/ CallToString
  \/ \E str \in Strings : CallFromString(str)

\* A digest of compression 1 that was given k samples of value 1: its
\* batch (8 centroids) is full at the eighth.
MaxFill == 7
MaxOtherAdds == 2
MaxMergeOps == 2
RECURSIVE Filled(_)
Filled(k) == IF k = 0 THEN Reset(1) ELSE Add(Filled(k - 1), Double(1), 1)

\* The digests of compression 1 handed to Merge, of up to MaxOtherAdds
\* samples.
RECURSIVE BuiltAtOne(_)
BuiltAtOne(k) ==
  IF k = 0 THEN {Reset(1)}
  ELSE BuiltAtOne(k - 1)
         \cup {Add(d, Double(v), 1) : d \in BuiltAtOne(k - 1), v \in Values}
Others == BuiltAtOne(MaxOtherAdds)

MInit ==
  /\ \E k \in 0..MaxFill :
       /\ digest = Filled(k)
       /\ ingested = k
       /\ lo = IF k = 0 THEN Double(DoubleMax) ELSE Double(1)
       /\ hi = IF k = 0 THEN Double(-DoubleMax) ELSE Double(1)
  /\ ndebug \in BOOLEAN
  /\ aborted = FALSE
  /\ dops = 0

\* Add and Merge on a digest near the end of its batch.
MNext ==
  /\ dops < MaxMergeOps
  /\ \/ \E v \in Values, n \in Counts : CallAdd(v, n)
     \/ \E that \in Others : CallMerge(that)

\* std::sort(centroids_.begin(), centroids_.end()) when some mean is NaN:
\* operator< is no strict weak ordering then (NaN is equivalent to 1 and
\* to 2, which are not equivalent), the call is undefined and may leave
\* the elements in any order.
Arranged(cs) ==
  {[i \in 1..Len(cs) |-> cs[p[i]]] : p \in IterationOrders(1..Len(cs))}
SortOutcomes(cs) ==
  IF \E i \in 1..Len(cs) : IsNan(cs[i].mean) THEN Arranged(cs)
  ELSE {Sort(cs)}

\* Add(NaN, count): a double like any other to Add.
CallAddNan(count) ==
  /\ Returns(Add(digest, kNan, count))
  /\ ingested' = ingested + count
  /\ UNCHANGED <<lo, hi>>

\* Cdf(val), whatever order the sort of its DoMerge() leaves.
CallCdfSorted(val) ==
  /\ \E sorted \in SortOutcomes(digest.centroids_) :
       Queried(Cdf(DoMergeSorted(digest, sorted), val))
  /\ UNCHANGED <<ingested, lo, hi>>

\* Samples, NaN among them, and queries.
NNext ==
  \/ \E v \in Values, n \in Counts : CallAdd(v, n)
  \/ CallAddNan(1)
  \/ \E val \in QueryValues : CallCdfSorted(val)

(***************************************************************************)
(*                           Specifications                                *)
(***************************************************************************)
vars == <<qvars, lvars, tvars, dvars>>

Init == QInit /\ LIdle /\ TInit /\ DIdle /\ limit = MaxOps
InitA == QInit /\ LIdle /\ TInit /\ DIdle /\ limit = MaxAsyncOps
InitD == QInit /\ LIdle /\ TInit /\ DInit /\ limit = MaxOps

\* The queue, with its producers and its consumer.
SpecQ == Init /\ [][QNext /\ UNCHANGED <<lvars, tvars, dvars>>]_vars

\* The consumer calls Pop and nothing else, and the scheduler never leaves
\* every thread idle while one of them has a step to take.  Once every Push
\* has completed the producers have no step left, so this is what the
\* consumer's thread being scheduled amounts to.
SpecQFair ==
  /\ Init
  /\ [][QNextPop /\ UNCHANGED <<lvars, tvars, dvars>>]_vars
  /\ WF_vars(QNextPop /\ UNCHANGED <<lvars, tvars, dvars>>)

\* The locked queue, with its producers and the threads that pop.
InitL == QInit /\ LInit /\ TInit /\ DIdle /\ limit = MaxOps
SpecL == InitL /\ [][LNext /\ UNCHANGED <<tvars, dvars>>]_vars

\* The tracker and its watchers: the calls made on the tracker.
SpecT == Init /\ [][TrackerStep /\ UNCHANGED <<qvars, lvars, dvars>>]_vars

\* The tracker, its watchers and the delivery of their notifications.
SpecA == InitA /\ [][TNext /\ UNCHANGED <<qvars, lvars, dvars>>]_vars

\* The same, with a work serializer that runs what it was handed, an
\* executor that runs every closure it was handed, and callbacks that
\* return.  The calls on the tracker are the program's to make or not.
SpecAFair ==
  /\ InitA
  /\ [][TNext /\ UNCHANGED <<qvars, lvars, dvars>>]_vars
  /\ WF_vars(SerializerRun /\ UNCHANGED <<qvars, lvars, dvars>>)
  /\ WF_vars(ExecutorRun /\ UNCHANGED <<qvars, lvars, dvars>>)
  /\ WF_vars(EndDelivery /\ UNCHANGED <<qvars, lvars, dvars>>)

\* The digest and the calls made on it.
SpecD == InitD /\ [][DNext /\ UNCHANGED <<qvars, lvars, tvars>>]_vars

\* The digest given samples that may be NaN, and Cdf.
SpecN == InitD /\ [][NNext /\ UNCHANGED <<qvars, lvars, tvars>>]_vars

\* Merges into a digest whose batch is about to fill.
InitM == QInit /\ LIdle /\ TInit /\ MInit /\ limit = MaxOps
SpecM == InitM /\ [][MNext /\ UNCHANGED <<qvars, lvars, tvars>>]_vars

----------------------------------------------------------------------------
(* Properties of the queue.                                                *)

\* Every producer has completed all the Push calls it makes.
AllPushed ==
  \A p \in Producers :
    /\ ppc[p] = "idle"
    /\ pidx[p] = NodesPerProducer \/ PushesStarted = MaxPushes
\* Every node given to Push was returned to the consumer.
AllPopped ==
  \A p \in Producers : \A k \in 1..pidx[p] :
    \E i \in 1..Len(popped) : popped[i] = NodeOf(p, k)

\* C1: every node returned to the consumer is a node some producer pushed,
\* never the stub, and no node is returned more than once.
C1_ReturnedArePushedOnce ==
  \A i \in 1..Len(popped) :
    /\ popped[i] \in Nodes
    /\ Exchanged(popped[i])
    /\ \A j \in 1..Len(popped) : j # i => popped[j] # popped[i]

\* C1 witness: all nodes were returned while the consumer had also met the
\* stub at the end of the list (a nullptr result happened in between).
C1_Witness == AllPushed /\ AllPopped /\ Len(popped) >= 3 /\ nones

\* C2: two nodes pushed by the same producer are returned in the order
\* that producer pushed them.
C2_PerProducerFifo ==
  \A i, j \in 1..Len(popped) :
    (i < j /\ OwnerOf(popped[i]) = OwnerOf(popped[j])) => popped[i] < popped[j]

\* C2 witness: the two nodes of one producer were returned with a node of
\* another producer between them.
C2_Witness ==
  \E i, j, k \in 1..Len(popped) :
    /\ i < j /\ j < k
    /\ OwnerOf(popped[i]) = OwnerOf(popped[k])
    /\ OwnerOf(popped[j]) # OwnerOf(popped[i])

\* C3: once every producer has completed all its Push calls, a consumer
\* that keeps calling Pop eventually has received all the nodes.
C3_AllEventuallyPopped == AllPushed ~> AllPopped

\* C3 witness: every Push has completed, a call returned nullptr on the way
\* and all the nodes were received.
C3_Witness ==
  /\ AllPushed /\ AllPopped /\ nones /\ cpc = "idle" /\ PushesStarted >= 3
  /\ \A p \in Producers : pidx[p] > 0

\* Producer p has completed a Push call and started no other since.
Completed(p) == pidx[p] > 0 /\ ppc[p] = "idle"

\* C14: Push has no false negatives: a Push whose head exchange happened
\* when every node pushed before had been returned and no other Push was
\* in progress returns true; so a Push that returned false was preceded by
\* an unreturned node or by a Push in progress.
C14_NoFalseNegative ==
  \A p \in Producers : (Completed(p) /\ pquiet[p]) => pret[p]

\* C14 witness: a producer's second Push found the queue empty after the
\* nodes pushed before it had been returned, and returned true.
C14_Witness ==
  \E p \in Producers :
    /\ Completed(p) /\ pidx[p] = NodesPerProducer
    /\ pquiet[p] /\ pret[p]
    /\ Len(popped) >= 1

\* The consumer's call to entry point op has returned nullptr.
ReturnedNone(op) == cpc = "idle" /\ cop = op /\ cnull

\* C15: Pop returns nullptr only if, at some moment of the call, the queue
\* held no unreturned node or a producer had exchanged head_ without having
\* stored the link yet; so a Pop during which every started Push has
\* completed and a node is waiting returns a node.
C15_NoneOnlyIfEmptyOrMidPush ==
  ReturnedNone("Pop") => (cvacant \/ cmid)

\* C15 witness: Pop returned nullptr while a node was waiting all along,
\* because a producer was mid-push.
C15_Witness ==
  ReturnedNone("Pop") /\ ~cvacant /\ cmid /\ Len(popped) >= 1

\* C16: PopAndCheckEnd sets *empty to true only if, at some moment of the
\* call, no node whose Push had exchanged head_ was waiting to be returned.
C16_EmptyIsDefinitive ==
  (ReturnedNone("PopAndCheckEnd") /\ empty) => cvacant

----------------------------------------------------------------------------
(* Properties of the tracker.                                              *)

\* The call just made was a SetState that changed the state.
StateChanged ==
  /\ nops' = nops + 1
  /\ call'.op = "SetState"
  /\ call'.state # state_

StatesOf(log) == [i \in 1..Len(log) |-> log[i].state]
WatchersOf(log) == [i \in 1..Len(log) |-> log[i].w]

\* C4: SHUTDOWN is terminal: once state_ is SHUTDOWN no later call
\* changes it.
C4_ShutdownTerminal == [][state_ = "SHUTDOWN" => state_' = "SHUTDOWN"]_vars

\* C5: a SetState whose state differs from the current one records the new
\* state and status and calls Notify exactly once on every watcher attached
\* at that moment, with the new state and the status of the call, and on
\* no other watcher.
C5_SetStateNotifiesAttached ==
  [][StateChanged =>
       /\ state_' = call'.state
       /\ status_' = call'.status
       /\ Len(lastNotified') = Cardinality(watchers_)
       /\ Range(WatchersOf(lastNotified')) = watchers_
       /\ \A i \in 1..Len(lastNotified') :
            /\ lastNotified'[i].state = call'.state
            /\ lastNotified'[i].status = call'.status
       /\ \A w \in Watchers :
            issued'[w] = IF w \in watchers_
                           THEN Append(issued[w], [state |-> call'.state,
                                                   status |-> call'.status])
                           ELSE issued[w]]_vars

\* C5 witness: a SetState to SHUTDOWN with an error status notified the two
\* watchers attached and left alone the one never attached.
C5_Witness ==
  /\ call.op = "SetState"
  /\ call.state = "SHUTDOWN" /\ call.status = "UNAVAILABLE"
  /\ state_ = "SHUTDOWN" /\ status_ = "UNAVAILABLE"
  /\ Len(lastNotified) = 2
  /\ \E w \in Watchers \ added : issued[w] = <<>>

\* The states a followed watcher is due at the end: the destructor of a
\* tracker that is not in SHUTDOWN notifies SHUTDOWN to the attached ones.
DueInAll(w) ==
  IF destroyed /\ expected[w][Len(expected[w])] # "SHUTDOWN"
    THEN Append(expected[w], "SHUTDOWN")
    ELSE expected[w]

ShutdownLast(log) ==
  \A i \in 1..Len(log) : log[i].state = "SHUTDOWN" => i = Len(log)

\* The notifications delivered to w, in the order of delivery.
DeliveredTo(w) == [i \in 1..Len(delivered[w]) |-> issued[w][delivered[w][i]]]

InOrderOneAtATime(w) ==
  /\ \A i \in 1..Len(delivered[w]) : delivered[w][i] = i
  /\ ~overlapped[w]

SameState ==
  /\ nops' = nops + 1
  /\ call'.op = "SetState"
  /\ call'.state = state_

\* The step is a call AddWatcher(initial_state, w).
Adds == nops' = nops + 1 /\ call'.op = "AddWatcher"

\* What the step issued to watcher w, after what w had been issued before.
IssuedBy(w) ==
  [i \in 1..(Len(issued'[w]) - Len(issued[w])) |-> issued'[w][Len(issued[w]) + i]]

\* The step issued nothing to any watcher and queued no Notifier.
IssuesNothing ==
  /\ lastNotified' = <<>>
  /\ UNCHANGED <<issued, wsq, execq, delivered>>

\* C17: SetState with the state the tracker is already in is a no-op,
\* whatever its status argument: it notifies no watcher and leaves state_,
\* status_ and the watcher set as they were.
C17_SameStateNoOp ==
  [][SameState =>
       /\ IssuesNothing
       /\ UNCHANGED <<state_, status_, watchers_>>]_vars

\* C17 witness: SetState was called with the current state and a status
\* other than the stored one while a watcher was attached; the stored
\* status is still the old one and nobody was notified.
C17_Witness ==
  /\ call.op = "SetState"
  /\ call.state = state_
  /\ call.status # status_
  /\ watchers_ # {}
  /\ lastNotified = <<>>

\* C18: AddWatcher(initial_state, w) issues exactly one notification, to w,
\* carrying state_ and status_, when initial_state differs from state_, and
\* none when they are equal; w is not in the watcher set when it is
\* notified.  status_ is the status of the last state-changing SetState:
\* no other step changes it.
C18_AddWatcherNotifiesOnce ==
  [][/\ Adds =>
          /\ call'.w \notin watchers_
          /\ \A w \in Watchers \ {call'.w} : IssuedBy(w) = <<>>
          /\ IF call'.differs
               THEN /\ IssuedBy(call'.w) =
                         <<[state |-> state_, status |-> status_]>>
                    /\ lastNotified' = <<[w |-> call'.w, state |-> state_,
                                           status |-> status_]>>
               ELSE IssuesNothing
     /\ status_' # status_ => (StateChanged /\ status_' = call'.status)]_vars

\* C18 witness: a watcher was added with a hint other than the state and
\* was notified of the state with the error status an earlier SetState had
\* stored.
C18_Witness ==
  /\ call.op = "AddWatcher"
  /\ call.differs
  /\ status_ = "UNAVAILABLE"
  /\ lastNotified = <<[w |-> call.w, state |-> state_, status |-> status_]>>
  /\ issued[call.w] = <<[state |-> state_, status |-> status_]>>

\* The step is a call of AddWatcher made in state SHUTDOWN.
AddsInShutdown == Adds /\ state_ = "SHUTDOWN"

\* C19 as stated: in state SHUTDOWN, AddWatcher notifies the watcher
\* exactly once, with SHUTDOWN, and does not add it, whatever the hint.
C19_NotifiedOnceInShutdown ==
  [][AddsInShutdown =>
       /\ StatesOf(IssuedBy(call'.w)) = <<"SHUTDOWN">>
       /\ call'.w \notin watchers_'
       /\ watchers_' = watchers_]_vars

\* C19 as amended: in state SHUTDOWN, AddWatcher never adds the watcher;
\* it notifies it exactly once, with SHUTDOWN, when the hint is another
\* state, and not at all when the hint is SHUTDOWN.
C19_NotAddedInShutdown ==
  [][AddsInShutdown =>
       /\ StatesOf(IssuedBy(call'.w)) =
            (IF call'.differs THEN <<"SHUTDOWN">> ELSE <<>>)
       /\ call'.w \notin watchers_'
       /\ watchers_' = watchers_]_vars

\* C19 witness: after a watcher added in state SHUTDOWN with a hint of
\* SHUTDOWN: it was issued nothing and is not attached.
C19_Witness ==
  /\ call.op = "AddWatcher"
  /\ state_ = "SHUTDOWN"
  /\ ~call.differs
  /\ issued[call.w] = <<>>
  /\ call.w \notin watchers_

\* C20: whenever state_ is SHUTDOWN the watcher set is empty.
C20_NoWatchersInShutdown == state_ = "SHUTDOWN" => watchers_ = {}

\* C20 witness: a watcher attached earlier was told of SHUTDOWN and let go,
\* and another one, added in state SHUTDOWN, was not accepted.
C20_Witness ==
  /\ state_ = "SHUTDOWN"
  /\ watchers_ = {}
  /\ call.op = "AddWatcher"
  /\ \E w \in added \ {call.w} :
       /\ issued[w] # <<>>
       /\ issued[w][Len(issued[w])].state = "SHUTDOWN"

\* The step is a call RemoveWatcher(w).
Removes == nops' = nops + 1 /\ call'.op = "RemoveWatcher"

\* C21: RemoveWatcher(w) takes w, and nothing else, out of the watcher set
\* (so it changes nothing when w is not in it), leaves state_ and status_
\* alone and notifies nobody; and no step issues a notification to a
\* watcher that RemoveWatcher has taken out.
C21_RemoveWatcherExact ==
  [][/\ Removes =>
          /\ watchers_' = watchers_ \ {call'.w}
          /\ IssuesNothing
          /\ UNCHANGED <<state_, status_>>
     /\ \A w \in removed : IssuedBy(w) = <<>>]_vars

\* C21 witness: of two attached watchers one was removed and the other
\* stayed.
C21_Witness ==
  /\ call.op = "RemoveWatcher"
  /\ call.w \in removed
  /\ call.w \notin watchers_
  /\ watchers_ # {}

\* The step is a call of SetState, state-changing or not.
Sets == nops' = nops + 1 /\ call'.op = "SetState"

\* The step is a call of state().
Gets == nops' = nops + 1 /\ call'.op = "state"

\* C22: state() returns state_ and changes nothing; state_ is the state
\* passed to the most recent SetState call, or the initial IDLE: every
\* SetState call leaves state_ equal to its argument and no other step
\* changes state_.
C22_StateReturnsLastSet ==
  [][/\ Gets =>
          /\ call'.result = state_
          /\ IssuesNothing
          /\ UNCHANGED <<state_, status_, watchers_>>
     /\ Sets => state_' = call'.state
     /\ state_' # state_ => Sets]_vars

\* C22 witness: state() returned a state other than the initial one while
\* a watcher was attached.
C22_Witness ==
  /\ call.op = "state"
  /\ call.result = state_
  /\ state_ # "IDLE"
  /\ watchers_ # {}

----------------------------------------------------------------------------
(* Properties of the digest.                                               *)

\* C10: after any sequence of Add and Merge calls, with queries in between,
\* count() is the sum of the counts given to Add plus the count() of every
\* digest merged in, whatever the compression the digest started with.
C10_CountIsTotalIngested == ~aborted => digest.count_ = ingested

\* C11: after any sequence of Add and Merge calls, with compactions and
\* queries in between, min() is the smallest and max() the largest sample
\* value ever ingested.
C11_MinMaxAreExtremes ==
  ~aborted => (digest.min_ = lo /\ digest.max_ = hi)

\* What the round trip has to keep.
Kept(d) ==
  [compression_ |-> d.compression_, count_ |-> d.count_,
   min_ |-> d.min_, max_ |-> d.max_, centroids_ |-> d.centroids_]

\* C12: for every digest D reachable by Add and Merge,
\* FromString(D.ToString()) succeeds and gives a digest with the same
\* compression, count, min, max and centroid sequence, whose ToString()
\* is the same string again.
C12_RoundTrip ==
  ~aborted =>
    LET s == DigestToString(digest)
        r == FromString(Reset(0), s.str)
    IN  /\ r.status = "Ok"
        /\ Kept(r.d) = Kept(s.d)
        /\ DigestToString(r.d).str = s.str
InUnitInterval(x) == x.d > 0 /\ 0 <= x.n /\ x.n <= x.d
C23_CdfInUnitInterval ==
  ~aborted =>
    \A val \in QueryValues :
      LET ret == Cdf(digest, val).ret
      IN  IF digest.count_ = 0 THEN IsNan(ret) ELSE InUnitInterval(ret)

\* C24: on every non-empty digest, after compaction, Cdf(min) is 0, Cdf(max)
\* is 1, Quantile(0) is min and Quantile(1) is max.
C24_Boundary ==
  (~aborted /\ digest.count_ > 0) =>
    LET d == DoMerge(digest)
    IN  /\ Cdf(d, d.min_).ret = Double(0)
        /\ Cdf(d, d.max_).ret = Double(1)
        /\ Quantile(d, Double(0)).ret = d.min_
        /\ Quantile(d, Double(1)).ret = d.max_

\* C25: when Merge(that) returns, sum_ is the receiver's previous sum_ plus
\* that's sum_, whether or not a compaction happened while that's centroids
\* were appended.
C25_SumAfterMerge ==
  [][\A that \in Others :
       (CallMerge(that) /\ ~aborted')
         => digest'.sum_ = Plus(digest.sum_, that.sum_)]_vars

\* C26: FromString returns an error for every malformed non-empty string.
C26_MalformedRefused ==
  \A str \in Malformed : FromString(digest, str).status = "InvalidArgument"

\* C27: the locked Pop returns nullptr only if the queue was empty during
\* the call: a node whose Push had returned when Pop was called, and that no
\* call has returned since, keeps Pop from returning nullptr.
C27_PopNullOnlyIfEmpty ==
  [][(lpc[1] = "Pop.done" /\ lpc'[1] = "idle" /\ lnode = nullptr)
       => lseen \cap Unpopped = {}]_vars

\* C28: while producers push, of the threads calling Pop and TryPop at most
\* one at a time is inside queue_, and no node is returned twice.
InQueue(t) == lpc[t] \in {"Pop.in", "TryPop.in"}
C28_OnePopperAtATime ==
  /\ \A t \in Poppers : \A u \in Poppers : (InQueue(t) /\ InQueue(u)) => t = u
  /\ \A t \in Poppers : InQueue(t) => mu_ = t
  /\ \A i \in 1..Len(popped) : \A j \in 1..Len(popped) :
       popped[i] = popped[j] => i = j

\* C28 witness: a thread is inside queue_.Pop while another waits for mu_
\* and a producer is inside Push, after a node was returned.
C28_Witness ==
  /\ \E t \in Poppers : \E u \in Poppers :
       /\ InQueue(t) /\ cpc # "idle"
       /\ lpc[u] = "Pop.lock"
  /\ \E p \in Producers : ppc[p] # "idle"
  /\ Len(popped) >= 1

\* C29: between calls, whatever the calls made so far, count_ is the sum of
\* the counts of the centroids stored, merged and unmerged together.
RECURSIVE StoredCount(_)
StoredCount(cs) ==
  IF cs = <<>> THEN 0 ELSE Head(cs).count + StoredCount(Tail(cs))
C29_CountIsStoredCount ==
  ~aborted => digest.count_ = StoredCount(digest.centroids_)

\* C29 witness: a digest holding merged centroids that absorbed several
\* samples together with centroids not yet merged.
C29_Witness ==
  /\ ~aborted
  /\ digest.merged_ >= 1
  /\ digest.unmerged_ >= 1
  /\ digest.merged_ + digest.unmerged_ = Len(digest.centroids_)
  /\ digest.centroids_[1].count >= 2
  /\ digest.count_ >= 3

\* C30: whenever the digest is non-empty and compacted, min_ is at most the
\* mean of the first centroid, the means of the merged centroids are in
\* non-decreasing order, and the mean of the last one is at most max_; this
\* holds after every sequence of calls, a successful FromString included.
AtMost(a, b) == ~Less(b, a)
Chain(d) ==
  /\ AtMost(d.min_, d.centroids_[1].mean)
  /\ \A i \in 1..(d.merged_ - 1) :
       AtMost(d.centroids_[i].mean, d.centroids_[i + 1].mean)
  /\ AtMost(d.centroids_[d.merged_].mean, d.max_)
C30_OrderedAndBracketed ==
  (~aborted /\ digest.count_ > 0 /\ digest.unmerged_ = 0 /\ digest.merged_ >= 1)
    => Chain(digest)

\* C31: at every quiescent point the number of unmerged centroids is
\* strictly less than batch_size_, whatever compression (0 included) the
\* constructor, Reset or FromString was given.
C31_UnmergedBelowBatch ==
  ~aborted => digest.unmerged_ < digest.batch_size_

\* C32: at every quiescent point merged_ + unmerged_ is the length of
\* centroids_; after a compaction unmerged_ is 0 and centroids_ holds exactly
\* the merged_ merged centroids.
C32_BufferLength ==
  ~aborted =>
    /\ digest.merged_ + digest.unmerged_ = Len(digest.centroids_)
    /\ digest.merged_ >= 0
    /\ digest.unmerged_ >= 0
\* A compaction has folded several samples into one merged centroid, and
\* nothing has been added since.
C32_Witness ==
  /\ ~aborted
  /\ digest.unmerged_ = 0
  /\ digest.merged_ >= 1
  /\ Len(digest.centroids_) = digest.merged_
  /\ \E i \in 1..digest.merged_ : digest.centroids_[i].count >= 3

\* C33: every notification issued to an asynchronous watcher is eventually
\* delivered, and delivered once, also when the watcher was removed by
\* RemoveWatcher or orphaned by SHUTDOWN while the notification was pending;
\* a watcher the tracker no longer holds is issued nothing more.  What was
\* delivered stays delivered, so "eventually delivered" is: time and again
\* everything issued so far has been delivered.
Detached(w) == w \in added /\ w \notin watchers_
DeliveredAtMostOnce(w) ==
  /\ \A j, k \in 1..Len(delivered[w]) :
       delivered[w][j] = delivered[w][k] => j = k
  /\ \A j \in 1..Len(delivered[w]) : delivered[w][j] \in 1..Len(issued[w])
C33_AsyncDeliveredOnce ==
  /\ [](\A w \in Async : DeliveredAtMostOnce(w))
  /\ [][\A w \in Async : Detached(w) => issued'[w] = issued[w]]_vars
  /\ []<>(\A w \in Async : Range(delivered[w]) = 1..Len(issued[w]))
\* SetState(SHUTDOWN) notified an attached asynchronous watcher and orphaned
\* it in the same call, with the notification still to be delivered; since
\* then every notification issued to it was delivered and its callbacks
\* have returned.
C33_Witness ==
  \E w \in Async :
    /\ call.op = "SetState"
    /\ call.state = "SHUTDOWN"
    /\ \E k \in 1..Len(lastNotified) : lastNotified[k].w = w
    /\ Detached(w)
    /\ Len(issued[w]) >= 2
    /\ Range(delivered[w]) = 1..Len(issued[w])
    /\ \A n \in running : n.w # w

\* C34: whenever every node that was pushed has been returned by Pop and no
\* Push is in progress, head_ and tail_ both point at stub_ again (the
\* destructor's checks pass), whatever the interleaving of pushes and pops,
\* pops that returned nullptr included.
NoPushInProgress == \A p \in Producers : ppc[p] = "idle"
C34_EmptyAgain ==
  (NoPushInProgress /\ AllPopped) => (head_ = stub_ /\ tail_ = stub_)
\* All three pushes were returned, a call having returned nullptr in
\* between, and the queue is as constructed.
C34_Witness ==
  /\ NoPushInProgress
  /\ AllPopped
  /\ Len(popped) >= 3
  /\ nones
  /\ cpc = "idle"
  /\ head_ = stub_
  /\ tail_ = stub_

\* C35: Cdf and Quantile change the digest only by compacting it: when the
\* call returns, unmerged_ is 0 and count_, min_, max_ and compression_ are
\* what they were before the call.
OnlyCompacted(before, after) ==
  /\ after.unmerged_ = 0
  /\ after.count_ = before.count_
  /\ after.min_ = before.min_
  /\ after.max_ = before.max_
  /\ after.compression_ = before.compression_
\* The call returns: no ABSL_DCHECK of a debug build failed in it.
ReturnsFrom(answer) == ndebug \/ answer.d.dcheck = {}
C35_QueriesOnlyCompact ==
  ~aborted =>
    /\ \A val \in QueryValues :
         LET answer == Cdf(digest, val)
         IN  ReturnsFrom(answer) => OnlyCompacted(digest, answer.d)
    /\ \A quantile \in Quantiles :
         LET answer == Quantile(digest, quantile)
         IN  ReturnsFrom(answer) => OnlyCompacted(digest, answer.d)

\* C36: the destructor of a tracker whose state is not SHUTDOWN calls Notify
\* exactly once on every watcher still attached, with SHUTDOWN and an OK
\* status, and on no other watcher; the destructor of a tracker in state
\* SHUTDOWN calls Notify on no watcher.
Destroys == ~destroyed /\ destroyed'
C36_DestructorNotifiesShutdown ==
  [][Destroys =>
       IF state_ = "SHUTDOWN"
         THEN lastNotified' = <<>> /\ issued' = issued
         ELSE /\ Len(lastNotified') = Cardinality(watchers_)
              /\ Range(WatchersOf(lastNotified')) = watchers_
              /\ \A i \in 1..Len(lastNotified') :
                   /\ lastNotified'[i].state = "SHUTDOWN"
                   /\ lastNotified'[i].status = "OK"
              /\ \A w \in Watchers :
                   issued'[w] = IF w \in watchers_
                                  THEN Append(issued[w],
                                              [state |-> "SHUTDOWN",
                                               status |-> "OK"])
                                  ELSE issued[w]]_vars
\* A tracker in TRANSIENT_FAILURE with an error status was destroyed with
\* two watchers attached: both were notified.
C36_Witness ==
  /\ destroyed
  /\ call.op = "destroy"
  /\ state_ = "TRANSIENT_FAILURE"
  /\ status_ = "UNAVAILABLE"
  /\ Len(lastNotified) = 2
  /\ \A i \in 1..2 :
       LET w == lastNotified[i].w
       IN  issued[w][Len(issued[w])] = [state |-> "SHUTDOWN", status |-> "OK"]

\* C37: no two consecutive notifications issued to a watcher carry the same
\* state, whether they come from AddWatcher, SetState or the destructor.
C37_ConsecutiveStatesDiffer ==
  \A w \in Watchers : \A i \in 1..(Len(issued[w]) - 1) :
    issued[w][i].state # issued[w][i + 1].state
\* A watcher was notified by AddWatcher, then by SetState, then by the
\* destructor.
C37_Witness ==
  \E w \in Watchers :
    /\ destroyed
    /\ Len(issued[w]) = 3
    /\ expected[w] # <<>>
    /\ issued[w][1].state = "IDLE"
    /\ issued[w][3].state = "SHUTDOWN"

\* C38: Cdf never reads centroids_ past its last element, in the scan of
\* the interior and in the loop over the centroids whose mean is val, for
\* every digest Add, Merge and FromString lead to and every val with
\* min_ <= val < max_; the scan returns before it falls through to "Cannot
\* measure CDF".
C38_CdfStaysInBounds ==
  ~aborted =>
    \A val \in QueryValues :
      \A sorted \in SortOutcomes(digest.centroids_) :
        LET d == DoMergeSorted(digest, sorted)
            answer == Cdf(d, val)
        IN  (Geq(val, d.min_) /\ Less(val, d.max_)) =>
              /\ ~answer.past_end
              /\ "Cannot measure CDF" \notin answer.d.dcheck

\* C39: whenever count_ is not 0 centroids_ is not empty, so the branch of
\* ToString for count_ = 1 reads a front() that exists; the counts being
\* non-negative, centroids_ then holds exactly one centroid, of count 1,
\* whose mean is the one value ingested: the smallest and the largest of
\* the values ingested, and the value ToString writes.
C39_SingleValue ==
  ~aborted =>
    /\ digest.count_ # 0 => digest.centroids_ # <<>>
    /\ digest.count_ = 1 =>
         /\ Len(digest.centroids_) = 1
         /\ digest.centroids_[1].count = 1
         /\ digest.centroids_[1].mean = lo
         /\ digest.centroids_[1].mean = hi
         /\ DigestToString(digest).str
              = <<Number(Double(digest.compression_)), Number(lo)>>
=========================================================================
